---- MODULE Spec2Model ----
(***************************************************************************)
(* Finance tracker: the transaction/budget store of script.js with its     *)
(* persistence and rendered views, and the aggregation functions of        *)
(* src/utils/financialUtils.js.                                            *)
(***************************************************************************)
EXTENDS Integers, Sequences, FiniteSets, TLC

\* ------------------------------------------------------------------ bounds
MaxTx == 2
MaxClock == 1
MaxLen == 3
MaxSpent == 12
MaxBudget == 10
MaxTime == 4
MaxWait == 2
MaxLate == 1

\* ------------------------------------------------------------- JS values
\* A JavaScript number is a finite value or NaN; null appears in JSON text.
Num(n) == [t |-> "num", v |-> n]
NaN == [t |-> "nan", v |-> 0]
Null == [t |-> "null", v |-> 0]

IsNum(x) == x.t = "num"

\* a + b on numbers: NaN is absorbing.
JsAdd(a, b) == IF IsNum(a) /\ IsNum(b) THEN Num(a.v + b.v) ELSE NaN

\* a - b on numbers.
JsSub(a, b) == IF IsNum(a) /\ IsNum(b) THEN Num(a.v - b.v) ELSE NaN

Digits == {"0", "1", "2", "3", "4", "5", "6", "7", "8", "9"}

DigitVal(c) ==
    CASE c = "0" -> 0 [] c = "1" -> 1 [] c = "2" -> 2 [] c = "3" -> 3
      [] c = "4" -> 4 [] c = "5" -> 5 [] c = "6" -> 6 [] c = "7" -> 7
      [] c = "8" -> 8 [] c = "9" -> 9

\* Length of the longest prefix of s made of digits.
RECURSIVE DigitPrefixLen(_)
DigitPrefixLen(s) ==
    IF s = <<>> \/ Head(s) \notin Digits THEN 0
    ELSE 1 + DigitPrefixLen(Tail(s))

\* Value of a sequence of digits read in base ten.
RECURSIVE DigitsValue(_)
DigitsValue(s) ==
    IF s = <<>> THEN 0
    ELSE 10 * DigitsValue(SubSeq(s, 1, Len(s) - 1)) + DigitVal(s[Len(s)])

\* parseFloat on a string given as its sequence of characters: an optional
\* sign, then the longest run of digits; NaN when no digit is found.
parseFloat(s) ==
    LET neg == s # <<>> /\ Head(s) = "-"
        body == IF neg THEN Tail(s) ELSE s
        n == DigitPrefixLen(body)
        mag == DigitsValue(SubSeq(body, 1, n))
    IN  IF n = 0 THEN NaN ELSE Num(IF neg THEN 0 - mag ELSE mag)

\* ------------------------------------------------------------------ dates
\* The value of a date field: "" is the record with month 0.
NoDate == [y |-> 0, m |-> 0, d |-> 0]
Today == [y |-> 2024, m |-> 3, d |-> 15]

\* Offsets of local time from UTC, in hours: a western timezone, UTC and an
\* eastern one.
TimezoneOffsets == {0 - 5, 0, 5}

DaysInMonth(y, m) ==
    IF m = 2
    THEN (IF y % 4 = 0 /\ (y % 100 # 0 \/ y % 400 = 0) THEN 29 ELSE 28)
    ELSE IF m \in {4, 6, 9, 11} THEN 30 ELSE 31

\* new Date('YYYY-MM-DD') is midnight UTC of that day; getMonth() and
\* getFullYear() read it in local time, where west of UTC it is still the
\* evening of the day before.
LocalFields(date, offset) ==
    IF date.m = 0 \/ offset >= 0 THEN date
    ELSE IF date.d > 1 THEN [date EXCEPT !.d = @ - 1]
    ELSE IF date.m > 1
    THEN [y |-> date.y, m |-> date.m - 1, d |-> DaysInMonth(date.y, date.m - 1)]
    ELSE [y |-> date.y - 1, m |-> 12, d |-> 31]

\* new Date(s).getMonth() === month && new Date(s).getFullYear() === year;
\* an invalid date yields NaN for both and matches nothing.
InMonth(date, month, year, offset) ==
    LET local == LocalFields(date, offset)
    IN  local.m # 0 /\ local.m = month /\ local.y = year

\* ------------------------------------------------------------ form inputs
Categories == {"food", "bills"}

TxInputs ==
    { [type |-> "expense", amount |-> <<"5", "0">>, category |-> "food",
       description |-> "lunch", date |-> Today],
      [type |-> "income", amount |-> <<>>, category |-> "bills",
       description |-> "refund", date |-> [y |-> 2024, m |-> 2, d |-> 10]] }

BudgetAmountInputs == { <<"1", "0", "0">>, <<>> }

Sections == {"dashboard", "transactions", "budget", "reports"}

\* ------------------------------------------------------------------ state
VARIABLES
    transactions,   \* script.js: let transactions (newest first)
    budgets,        \* script.js: let budgets (category -> amount)
    localStorage,   \* the two persisted keys
    now,            \* the reading of Date.now()
    dashboardView,  \* what updateDashboard last wrote
    listView,       \* what renderTransactions last wrote
    budgetView,     \* what renderBudgets last wrote
    reportsView,    \* what renderReports last wrote
    call,           \* library call under examination: function and arguments
    ret,            \* its result
    utcOffset       \* the browser's timezone: local time minus UTC, in hours

storeVars == <<transactions, budgets, localStorage, now, dashboardView,
               listView, budgetView, reportsView, utcOffset>>
libVars == <<call, ret>>
vars == <<transactions, budgets, localStorage, now, dashboardView, listView,
          budgetView, reportsView, call, ret, utcOffset>>

\* ------------------------------------------------------------ persistence
\* JSON.stringify of a number: NaN is written as null.
JsonNumber(x) == IF IsNum(x) THEN x ELSE Null

\* JSON.parse(JSON.stringify(transactions)): every field but amount is a
\* string or an integer and survives unchanged.
JsonTransactions(list) ==
    [i \in 1..Len(list) |-> [list[i] EXCEPT !.amount = JsonNumber(@)]]

\* JSON.parse(JSON.stringify(budgets)).
JsonBudgets(b) == [c \in DOMAIN b |-> JsonNumber(b[c])]

Absent == [present |-> FALSE, val |-> <<>>]
Stored(v) == [present |-> TRUE, val |-> v]

\* JSON.parse(localStorage.getItem('transactions')) || []
LoadTransactions(ls) ==
    IF ls.transactions.present THEN ls.transactions.val ELSE <<>>

\* JSON.parse(localStorage.getItem('budgets')) || {}
LoadBudgets(ls) ==
    IF ls.budgets.present THEN ls.budgets.val ELSE <<>>

\* saveData(): localStorage.setItem('transactions', JSON.stringify(...))
saveData(ls, list) ==
    [ls EXCEPT !.transactions = Stored(JsonTransactions(list))]

\* ------------------------------------------------------------------ views
RECURSIVE SumAmounts(_)
SumAmounts(list) ==
    IF list = <<>> THEN Num(0)
    ELSE JsAdd(SumAmounts(SubSeq(list, 1, Len(list) - 1)),
               list[Len(list)].amount)

\* Array.prototype.filter is SelectSeq.
\* updateDashboard(): income, expenses and balance of the current month.
updateDashboard(list) ==
    LET IsThisMonth(t) == InMonth(t.date, Today.m, Today.y, utcOffset)
        IsIncome(t) == t.type = "income"
        IsExpense(t) == t.type = "expense"
        month == SelectSeq(list, IsThisMonth)
        income == SumAmounts(SelectSeq(month, IsIncome))
        expenses == SumAmounts(SelectSeq(month, IsExpense))
    IN  [income |-> income, expenses |-> expenses,
         balance |-> JsSub(income, expenses),
         recent |-> SubSeq(list, 1, IF Len(list) < 5 THEN Len(list) ELSE 5)]

\* renderTransactions() with the filter controls at 'all' and an empty
\* search term: one item, with its delete button, per transaction.
renderTransactions(list) == list

\* (spent / budget) * 100 >= threshold, for spent and budget numbers or NaN.
PercentageAtLeast(spent, budget, threshold) ==
    IF ~IsNum(spent) \/ ~IsNum(budget) THEN FALSE
    ELSE IF budget.v > 0 THEN spent.v * 100 >= threshold * budget.v
    ELSE IF budget.v < 0 THEN spent.v * 100 <= threshold * budget.v
    ELSE spent.v > 0

\* Math.min((spent / budget) * 100, 100) as a quotient n/d; a NaN operand
\* and 0/0 give NaN, a division of a negative spent by 0 gives -Infinity.
BarWidth(spent, budget) ==
    IF ~IsNum(spent) \/ ~IsNum(budget) \/ (budget.v = 0 /\ spent.v = 0)
    THEN [t |-> "nan", n |-> 0, d |-> 1]
    ELSE IF budget.v = 0 /\ spent.v < 0
    THEN [t |-> "-inf", n |-> 0, d |-> 1]
    ELSE IF PercentageAtLeast(spent, budget, 100)
    THEN [t |-> "num", n |-> 100, d |-> 1]
    ELSE [t |-> "num", n |-> spent.v * 100, d |-> budget.v]

\* renderBudgets(): per budgeted category, this month's spending, the
\* class of the progress bar and its width in percent.
renderBudgets(list, b) ==
    [c \in DOMAIN b |->
        LET Counts(t) == t.type = "expense" /\ t.category = c
                         /\ InMonth(t.date, Today.m, Today.y, utcOffset)
            spent == SumAmounts(SelectSeq(list, Counts))
        IN  [spent |-> spent,
             budget |-> b[c],
             remaining |-> JsSub(b[c], spent),
             progressClass |->
                IF PercentageAtLeast(spent, b[c], 90) THEN "danger"
                ELSE IF PercentageAtLeast(spent, b[c], 70) THEN "warning"
                ELSE "",
             width |-> BarWidth(spent, b[c])]]

\* renderReports() -> renderFinancialSummary(): totals over all transactions.
renderReports(list) ==
    LET IsIncome(t) == t.type = "income"
        IsExpense(t) == t.type = "expense"
        totalIncome == SumAmounts(SelectSeq(list, IsIncome))
        totalExpenses == SumAmounts(SelectSeq(list, IsExpense))
    IN  [totalIncome |-> totalIncome, totalExpenses |-> totalExpenses,
         netSavings |-> JsSub(totalIncome, totalExpenses)]

\* ------------------------------------------------------------------- Init
NoCall == [fn |-> "none"]
NoResults == <<>>

\* The page after script.js has loaded with nothing persisted.
PageLoaded ==
    /\ localStorage = [transactions |-> Absent, budgets |-> Absent]
    /\ transactions = LoadTransactions(localStorage)
    /\ budgets = LoadBudgets(localStorage)
    /\ now = 0
    /\ dashboardView = updateDashboard(transactions)
    /\ listView = renderTransactions(transactions)
    /\ budgetView = renderBudgets(transactions, budgets)
    /\ reportsView = renderReports(transactions)
    /\ call = NoCall
    /\ ret = NoResults

\* The dates entered under Spec and SpecAnyForm lie inside their month, where
\* every timezone reads the same month and year: the browser is in UTC.
Init == PageLoaded /\ utcOffset = 0

\* ---------------------------------------------------------------- actions
\* Time passes between two handlers.
Tick ==
    /\ now < MaxClock
    /\ now' = now + 1
    /\ UNCHANGED <<transactions, budgets, localStorage, dashboardView,
                   listView, budgetView, reportsView, call, ret, utcOffset>>

\* addTransaction without its call of updateDashboard().
AddTransactionNoDashboard(form) ==
    /\ Len(transactions) < MaxTx
    /\ LET transaction ==
               [id |-> now,
                type |-> form.type,
                amount |-> parseFloat(form.amount),
                category |-> form.category,
                description |-> form.description,
                date |-> form.date,
                timestamp |-> now]
       IN  transactions' = <<transaction>> \o transactions
    /\ localStorage' = saveData(localStorage, transactions')
    /\ listView' = renderTransactions(transactions')
    /\ UNCHANGED <<budgets, now, dashboardView, budgetView, reportsView,
                   call, ret, utcOffset>>

\* addTransaction(e) with the form holding the values of `form`.
AddTransaction(form) ==
    /\ Len(transactions) < MaxTx
    /\ LET transaction ==
               [id |-> now,
                type |-> form.type,
                amount |-> parseFloat(form.amount),
                category |-> form.category,
                description |-> form.description,
                date |-> form.date,
                timestamp |-> now]
       IN  transactions' = <<transaction>> \o transactions
    /\ localStorage' = saveData(localStorage, transactions')
    /\ dashboardView' = updateDashboard(transactions')
    /\ listView' = renderTransactions(transactions')
    /\ UNCHANGED <<budgets, now, budgetView, reportsView, call, ret, utcOffset>>

\* deleteTransaction(id), the user answering the confirm() dialog.
DeleteTransaction(id, confirmed) ==
    LET Others(t) == t.id # id
    IN  IF confirmed
        THEN /\ transactions' = SelectSeq(transactions, Others)
             /\ localStorage' = saveData(localStorage, transactions')
             /\ dashboardView' = updateDashboard(transactions')
             /\ listView' = renderTransactions(transactions')
             /\ UNCHANGED <<budgets, now, budgetView, reportsView,
                            call, ret, utcOffset>>
        ELSE UNCHANGED <<transactions, budgets, localStorage, now,
                         dashboardView, listView, budgetView, reportsView,
                         call, ret, utcOffset>>

\* setBudget building a fresh mapping that holds the one category.
SetBudgetDropsOthers(category, amount) ==
    /\ budgets' = [c \in {category} |-> parseFloat(amount)]
    /\ localStorage' = [localStorage EXCEPT
                           !.budgets = Stored(JsonBudgets(budgets'))]
    /\ budgetView' = renderBudgets(transactions, budgets')
    /\ UNCHANGED <<transactions, now, dashboardView, listView, reportsView,
                   call, ret, utcOffset>>

\* setBudget(e) with the form holding category and amount.
SetBudget(category, amount) ==
    /\ budgets' = [c \in DOMAIN budgets \cup {category} |->
                      IF c = category THEN parseFloat(amount) ELSE budgets[c]]
    /\ localStorage' = [localStorage EXCEPT
                           !.budgets = Stored(JsonBudgets(budgets'))]
    /\ budgetView' = renderBudgets(transactions, budgets')
    /\ UNCHANGED <<transactions, now, dashboardView, listView, reportsView,
                   call, ret, utcOffset>>

\* showSection(sectionId), from a click on a navigation link.
ShowSection(sectionId) ==
    /\ dashboardView' = IF sectionId = "dashboard"
                        THEN updateDashboard(transactions) ELSE dashboardView
    /\ budgetView' = IF sectionId = "budget"
                     THEN renderBudgets(transactions, budgets) ELSE budgetView
    /\ reportsView' = IF sectionId = "reports"
                      THEN renderReports(transactions) ELSE reportsView
    /\ UNCHANGED <<transactions, budgets, localStorage, now, listView,
                   call, ret, utcOffset>>

\* The delete buttons on the page carry the ids of the rendered items.
RenderedIds == {listView[i].id : i \in 1..Len(listView)}

Next ==
    \/ Tick
    \/ \E form \in TxInputs : AddTransaction(form)
    \/ \E id \in RenderedIds, confirmed \in BOOLEAN :
          DeleteTransaction(id, confirmed)
    \/ \E category \in Categories, amount \in BudgetAmountInputs :
          SetBudget(category, amount)
    \/ \E sectionId \in Sections : ShowSection(sectionId)

Spec == Init /\ [][Next]_vars

\* ------------------------------------------------- any form field values
\* The store driven by forms whose fields hold a positive, an empty, a
\* zero and a negative amount, a chosen and an empty category, and a
\* chosen and an empty date.
AnyAmountInputs == {<<"5", "0">>, <<>>, <<"0">>, <<"-", "5">>}
AnyTxInputs ==
    {[type |-> "expense", amount |-> a, category |-> c,
      description |-> "lunch", date |-> d] :
        a \in AnyAmountInputs, c \in {"food", ""}, d \in {Today, NoDate}}

NextAnyForm ==
    \/ \E form \in AnyTxInputs : AddTransaction(form)
    \/ \E id \in RenderedIds, confirmed \in BOOLEAN :
          DeleteTransaction(id, confirmed)
    \/ \E category \in Categories, amount \in AnyAmountInputs :
          SetBudget(category, amount)

SpecAnyForm == Init /\ [][NextAnyForm]_vars

\* ------------------------------------------------------- budget overview
\* The store driven by valid transactions of 70 and 20, dated today, the
\* first of this month and the first of the next, against budgets of 100,
\* with the budget section shown again at any time.
OverviewTxInputs ==
    {[type |-> ty, amount |-> a, category |-> c, description |-> "lunch",
      date |-> d] :
        ty \in {"expense", "income"}, a \in {<<"7", "0">>, <<"2", "0">>},
        c \in Categories,
        d \in {Today, [y |-> 2024, m |-> 3, d |-> 1],
               [y |-> 2024, m |-> 4, d |-> 1]}}

NextOverview ==
    \/ \E form \in OverviewTxInputs : AddTransaction(form)
    \/ \E category \in Categories : SetBudget(category, <<"1", "0", "0">>)
    \/ ShowSection("budget")

\* The browser is in any of the timezones.
InitOverview == PageLoaded /\ utcOffset \in TimezoneOffsets

SpecOverview == InitOverview /\ [][NextOverview]_vars

\* =================================================== financialUtils.js
\* ----------------------------------------------------- record fields
\* The amount field of an expense record: a number, a string (its
\* characters) or missing.
FNum(n) == [t |-> "num", v |-> n, s |-> <<>>]
FStr(chars) == [t |-> "str", v |-> 0, s |-> chars]
FUndef == [t |-> "undef", v |-> 0, s |-> <<>>]

\* The category field: a string or missing.
CatStr(name) == [t |-> "str", s |-> name]
CatUndef == [t |-> "undef", s |-> ""]

\* Truthiness of an amount field: 0, '' and undefined are falsy.
AmountTruthy(f) ==
    \/ f.t = "num" /\ f.v # 0
    \/ f.t = "str" /\ f.s # <<>>

\* parseFloat(expense.amount || 0)
ParsedAmount(f) ==
    IF ~AmountTruthy(f) THEN Num(0)
    ELSE IF f.t = "num" THEN Num(f.v)
    ELSE parseFloat(f.s)

\* expense.category || 'Uncategorized'
CategoryKey(c) == IF c.t = "str" /\ c.s # "" THEN c.s ELSE "Uncategorized"

\* expenses.reduce((total, expense) => total + parseFloat(...), 0)
RECURSIVE calculateTotalExpenses(_)
calculateTotalExpenses(expenses) ==
    IF expenses = <<>> THEN Num(0)
    ELSE JsAdd(calculateTotalExpenses(SubSeq(expenses, 1, Len(expenses) - 1)),
               ParsedAmount(expenses[Len(expenses)].amount))

\* One step of the reducer of groupExpensesByCategory, keeping only the
\* last record's amount as the group total.
GroupStepAssignsTotal(acc, expense) ==
    LET category == CategoryKey(expense.category)
        old == IF category \in DOMAIN acc THEN acc[category]
               ELSE [total |-> Num(0), count |-> 0, expenses |-> <<>>]
    IN  [k \in DOMAIN acc \cup {category} |->
            IF k = category
            THEN [total |-> ParsedAmount(expense.amount),
                  count |-> old.count + 1,
                  expenses |-> Append(old.expenses, expense)]
            ELSE acc[k]]

\* One step of the reducer of groupExpensesByCategory.
GroupStep(acc, expense) ==
    LET category == CategoryKey(expense.category)
        old == IF category \in DOMAIN acc THEN acc[category]
               ELSE [total |-> Num(0), count |-> 0, expenses |-> <<>>]
    IN  [k \in DOMAIN acc \cup {category} |->
            IF k = category
            THEN [total |-> JsAdd(old.total, ParsedAmount(expense.amount)),
                  count |-> old.count + 1,
                  expenses |-> Append(old.expenses, expense)]
            ELSE acc[k]]

\* expenses.reduce((acc, expense) => {...}, {})
RECURSIVE groupExpensesByCategory(_)
groupExpensesByCategory(expenses) ==
    IF expenses = <<>> THEN <<>>
    ELSE GroupStep(
            groupExpensesByCategory(SubSeq(expenses, 1, Len(expenses) - 1)),
            expenses[Len(expenses)])

\* ------------------------------------------------- budget calculations
\* A quotient n/d with d > 0; -0 and 0 are not told apart.
Rat(n, d) == IF d < 0 THEN [n |-> 0 - n, d |-> 0 - d] ELSE [n |-> n, d |-> d]

\* q >= k for an integer k.
RatGE(q, k) == q.n >= k * q.d

\* Math.min(q, k) for an integer k.
RatMin(q, k) == IF q.n <= k * q.d THEN q ELSE Rat(k, 1)

\* calculateBudgetUtilization without the cap at 100.
calculateBudgetUtilizationNoCap(spent, budget) ==
    IF budget = 0 THEN Rat(0, 1)
    ELSE Rat(spent * 100, budget)

\* if (budget === 0) return 0; return Math.min((spent / budget) * 100, 100)
calculateBudgetUtilization(spent, budget) ==
    IF budget = 0 THEN Rat(0, 1)
    ELSE RatMin(Rat(spent * 100, budget), 100)

\* getBudgetStatus with the caution tier starting at 80%.
getBudgetStatusCautionAt80(spent, budget) ==
    LET utilization == calculateBudgetUtilization(spent, budget)
    IN  IF RatGE(utilization, 100) THEN "exceeded"
        ELSE IF RatGE(utilization, 90) THEN "warning"
        ELSE IF RatGE(utilization, 80) THEN "caution"
        ELSE "healthy"

\* getBudgetStatus testing the 75% tier before the 90% tier.
getBudgetStatusTiersSwapped(spent, budget) ==
    LET utilization == calculateBudgetUtilization(spent, budget)
    IN  IF RatGE(utilization, 100) THEN "exceeded"
        ELSE IF RatGE(utilization, 90) THEN "caution"
        ELSE IF RatGE(utilization, 75) THEN "warning"
        ELSE "healthy"

\* isBudgetExceeded(spent, budget)
isBudgetExceeded(spent, budget) == spent > budget

\* getBudgetStatus(spent, budget)
getBudgetStatus(spent, budget) ==
    LET utilization == calculateBudgetUtilization(spent, budget)
    IN  IF RatGE(utilization, 100) THEN "exceeded"
        ELSE IF RatGE(utilization, 90) THEN "warning"
        ELSE IF RatGE(utilization, 75) THEN "caution"
        ELSE "healthy"

\* ------------------------------------------------------------- sorting
\* Array.prototype.sort with a comparator that subtracts two numeric keys:
\* the indices 1..n of keys in ascending key order, equal keys keeping
\* their input order (the sort is stable).
RECURSIVE SortedIndices(_, _)
SortedIndices(keys, n) ==
    IF n = 0 THEN <<>>
    ELSE LET prev == SortedIndices(keys, n - 1)
             notAfter == {j \in 1..Len(prev) : keys[prev[j]] <= keys[n]}
             k == IF notAfter = {} THEN 0
                  ELSE CHOOSE j \in notAfter : \A i \in notAfter : i <= j
         IN  SubSeq(prev, 1, k) \o <<n>> \o SubSeq(prev, k + 1, Len(prev))

\* Math.floor(n / 2) for n >= 0
HalfFloor(n) == n \div 2

\* expenses.map(e => parseFloat(e.amount)) for amounts that parse.
MedianAmounts(expenses) ==
    [i \in 1..Len(expenses) |->
        (IF expenses[i].amount.t = "num" THEN Num(expenses[i].amount.v)
         ELSE IF expenses[i].amount.t = "str"
              THEN parseFloat(expenses[i].amount.s)
         ELSE NaN).v]

\* calculateMedianExpense reading the middle of the unsorted amounts.
calculateMedianExpenseUnsorted(expenses) ==
    IF Len(expenses) = 0 THEN Rat(0, 1)
    ELSE LET sorted == MedianAmounts(expenses)
             mid == HalfFloor(Len(sorted))
         IN  IF Len(sorted) % 2 = 0
             THEN Rat(sorted[mid] + sorted[mid + 1], 2)
             ELSE Rat(sorted[mid + 1], 1)

\* calculateMedianExpense(expenses); sorted[mid] of the code, which counts
\* from 0, is sorted[mid + 1] here.
calculateMedianExpense(expenses) ==
    IF Len(expenses) = 0 THEN Rat(0, 1)
    ELSE LET amounts == MedianAmounts(expenses)
             order == SortedIndices(amounts, Len(amounts))
             sorted == [j \in 1..Len(order) |-> amounts[order[j]]]
             mid == HalfFloor(Len(sorted))
         IN  IF Len(sorted) % 2 = 0
             THEN Rat(sorted[mid] + sorted[mid + 1], 2)
             ELSE Rat(sorted[mid + 1], 1)

\* An argument left out of a call, for which the default value is used.
Omitted == "<omitted>"
OrDefault(arg, default) == IF arg = Omitted THEN default ELSE arg

\* new Date(s).getTime() for a date-only string, up to an increasing map:
\* only differences and comparisons of it are used.
DateOrdinal(date) == (date.y * 12 + date.m) * 31 + date.d

\* a.localeCompare(b) orders the category names alphabetically.
LocaleRank(name) ==
    CASE name = "bills" -> 1 [] name = "food" -> 2 [] name = "other" -> 3
      [] OTHER -> 0

\* The number whose differences are `comparison` in sortExpenses.
SortKey(expense, sortBy) ==
    CASE sortBy = "date" -> DateOrdinal(expense.date)
      [] sortBy = "amount" -> ParsedAmount(expense.amount).v
      [] sortBy = "category" -> LocaleRank(expense.category.s)
      [] OTHER -> 0

\* sortExpenses sorting ascending and reversing the result for 'desc'.
sortExpensesReversedForDesc(expenses, sortByArg, orderArg) ==
    LET sortBy == OrDefault(sortByArg, "date")
        order == OrDefault(orderArg, "desc")
        n == Len(expenses)
        keys == [i \in 1..n |-> SortKey(expenses[i], sortBy)]
        perm == SortedIndices(keys, n)
    IN  [j \in 1..n |->
            expenses[perm[IF order = "desc" THEN n + 1 - j ELSE j]]]

\* sortExpenses(expenses, sortBy = 'date', order = 'desc'): the comparator
\* returns -comparison for 'desc', which is the difference of negated keys.
sortExpenses(expenses, sortByArg, orderArg) ==
    LET sortBy == OrDefault(sortByArg, "date")
        order == OrDefault(orderArg, "desc")
        n == Len(expenses)
        keys == [i \in 1..n |->
                    IF order = "desc" THEN 0 - SortKey(expenses[i], sortBy)
                    ELSE SortKey(expenses[i], sortBy)]
        perm == SortedIndices(keys, n)
    IN  [j \in 1..n |-> expenses[perm[j]]]

\* A numeric argument, given or left out.
Arg(v) == [given |-> TRUE, v |-> v]
NoArg == [given |-> FALSE, v |-> 0]
ArgOr(arg, default) == IF arg.given THEN arg.v ELSE default

\* `${expense.category}-${expense.amount}`
RecurringKey(expense) ==
    expense.category.s \o "-" \o ToString(expense.amount.v)

\* One step of the reducer of identifyRecurringExpenses; the object `acc`
\* is the sequence of its entries in insertion order.
RecurringStep(acc, expense) ==
    LET key == RecurringKey(expense)
    IN  IF \E i \in 1..Len(acc) : acc[i].key = key
        THEN [i \in 1..Len(acc) |->
                 IF acc[i].key = key
                 THEN [acc[i] EXCEPT !.items = Append(@, expense)]
                 ELSE acc[i]]
        ELSE Append(acc, [key |-> key, items |-> <<expense>>])

RECURSIVE RecurringGroups(_)
RecurringGroups(expenses) ==
    IF expenses = <<>> THEN <<>>
    ELSE RecurringStep(
            RecurringGroups(SubSeq(expenses, 1, Len(expenses) - 1)),
            expenses[Len(expenses)])

RecurringEntry(group) ==
    [category |-> group.items[1].category,
     amount |-> group.items[1].amount,
     frequency |-> Len(group.items),
     expenses |-> group.items]

\* identifyRecurringExpenses keeping the groups larger than the threshold.
identifyRecurringExpensesAboveThreshold(expenses, thresholdArg) ==
    LET threshold == ArgOr(thresholdArg, 3)
        Frequent(group) == Len(group.items) > threshold
        kept == SelectSeq(RecurringGroups(expenses), Frequent)
    IN  [i \in 1..Len(kept) |-> RecurringEntry(kept[i])]

\* identifyRecurringExpenses(expenses, threshold = 3)
identifyRecurringExpenses(expenses, thresholdArg) ==
    LET threshold == ArgOr(thresholdArg, 3)
        Frequent(group) == Len(group.items) >= threshold
        kept == SelectSeq(RecurringGroups(expenses), Frequent)
    IN  [i \in 1..Len(kept) |-> RecurringEntry(kept[i])]

\* Time values are milliseconds; calendar days are counted from 2024-02-29,
\* so that 2024-03-d is day d.
MsPerHour == 3600000
MsPerDay == 24 * MsPerHour
DayIndex(date) == date.d

\* A date argument is a date-only string 'YYYY-MM-DD', which new Date()
\* reads as midnight UTC, or a Date object built from local fields as by
\* getCurrentMonthRange, which is midnight local time.  tz is the offset of
\* local time from UTC in hours.
DateString(date) == [kind |-> "string", date |-> date]
LocalDate(date) == [kind |-> "local", date |-> date]
getTime(value, tz) ==
    IF value.kind = "string" THEN DayIndex(value.date) * MsPerDay
    ELSE DayIndex(value.date) * MsPerDay - tz * MsPerHour

\* date.setHours(0, 0, 0, 0) and date.setHours(23, 59, 59, 999): the
\* first and the last millisecond of the local day that holds `time`.
StartOfLocalDay(time, tz) ==
    ((time + tz * MsPerHour) \div MsPerDay) * MsPerDay - tz * MsPerHour
EndOfLocalDay(time, tz) == StartOfLocalDay(time, tz) + MsPerDay - 1

\* filterExpensesByDateRange(expenses, startDate, endDate)
filterExpensesByDateRange(expenses, startDate, endDate, tz) ==
    LET start == StartOfLocalDay(getTime(startDate, tz), tz)
        end == EndOfLocalDay(getTime(endDate, tz), tz)
        InRange(expense) ==
            LET expenseDate == getTime(DateString(expense.date), tz)
            IN  expenseDate >= start /\ expenseDate <= end
    IN  SelectSeq(expenses, InRange)

\* The keys of the object built by groupExpensesByCategory in the order
\* Object.entries lists them: that of their first assignment.
RECURSIVE CategoryOrder(_)
CategoryOrder(expenses) ==
    IF expenses = <<>> THEN <<>>
    ELSE LET prev == CategoryOrder(SubSeq(expenses, 1, Len(expenses) - 1))
             category == CategoryKey(expenses[Len(expenses)].category)
         IN  IF \E i \in 1..Len(prev) : prev[i] = category THEN prev
             ELSE Append(prev, category)

\* Object.entries(grouped)
GroupEntries(expenses) ==
    LET grouped == groupExpensesByCategory(expenses)
        order == CategoryOrder(expenses)
    IN  [i \in 1..Len(order) |->
            [category |-> order[i], data |-> grouped[order[i]]]]

\* (a, b) => b[1].total - a[1].total is a consistent comparator unless a
\* NaN total, which compares equal to every total, sits beside two totals
\* that differ.
ConsistentComparator(entries) ==
    \/ \A i \in 1..Len(entries) : entries[i].data.total.t = "num"
    \/ \A i, j \in 1..Len(entries) :
          (entries[i].data.total.t = "num" /\ entries[j].data.total.t = "num")
              => entries[i].data.total.v = entries[j].data.total.v

\* The orders .sort((a, b) => b[1].total - a[1].total) may leave the
\* entries in: the stable descending order for a consistent comparator, an
\* implementation-defined one otherwise.
EntryOrders(entries) ==
    LET n == Len(entries)
        keys == [i \in 1..n |->
                    IF entries[i].data.total.t = "num"
                    THEN 0 - entries[i].data.total.v ELSE 0]
    IN  IF \A i \in 1..n : entries[i].data.total.t = "num"
        THEN {SortedIndices(keys, n)}
        ELSE IF ConsistentComparator(entries)
        THEN {[i \in 1..n |-> i]}
        ELSE {p \in [1..n -> 1..n] :
                 \A i, j \in 1..n : p[i] = p[j] => i = j}

\* getTopCategories(expenses, limit = 5), with the order the sort produced.
getTopCategories(expenses, limitArg, order) ==
    LET limit == ArgOr(limitArg, 5)
        entries == GroupEntries(expenses)
        kept == IF limit < Len(order) THEN limit ELSE Len(order)
    IN  [i \in 1..kept |->
            [category |-> entries[order[i]].category,
             total |-> entries[order[i]].data.total,
             count |-> entries[order[i]].data.count,
             expenses |-> entries[order[i]].data.expenses]]

\* !value for a field: undefined, 0 and '' are falsy.
Truthy(field) == AmountTruthy(field)

\* parseFloat(field): a number is read back from its text, undefined
\* gives NaN.
ParseField(field) ==
    IF field.t = "num" THEN Num(field.v)
    ELSE IF field.t = "str" THEN parseFloat(field.s)
    ELSE NaN

\* String.prototype.trim on a sequence of characters.
RECURSIVE TrimStart(_)
TrimStart(s) ==
    IF s # <<>> /\ Head(s) = " " THEN TrimStart(Tail(s)) ELSE s
RECURSIVE TrimEnd(_)
TrimEnd(s) ==
    IF s # <<>> /\ s[Len(s)] = " " THEN TrimEnd(SubSeq(s, 1, Len(s) - 1))
    ELSE s
Trim(s) == TrimEnd(TrimStart(s))

\* The outcome of a validator: the object it returns, or a TypeError.
Returned(errors) ==
    [threw |-> FALSE, isValid |-> Len(errors) = 0, errors |-> errors]
Threw == [threw |-> TRUE, isValid |-> FALSE, errors |-> <<>>]

\* The errors pushed for the amount, with the validator's two messages.
AmountErrors(amount, invalid, notPositive) ==
    (IF ~Truthy(amount) \/ ParseField(amount).t # "num"
     THEN <<invalid>> ELSE <<>>)
    \o (IF ParseField(amount).t = "num" /\ ParseField(amount).v <= 0
        THEN <<notPositive>> ELSE <<>>)

\* category.trim() is a call of undefined when category is a truthy value
\* that is not a string.
CategoryTrimThrows(category) == Truthy(category) /\ category.t # "str"
CategoryErrors(category) ==
    IF ~Truthy(category) \/ Trim(category.s) = <<>>
    THEN <<"Category is required">> ELSE <<>>

\* validateExpense(expense)
validateExpense(expense) ==
    IF CategoryTrimThrows(expense.category) THEN Threw
    ELSE Returned(
            AmountErrors(expense.amount, "Invalid amount",
                         "Amount must be positive")
            \o CategoryErrors(expense.category)
            \o (IF ~Truthy(expense.date) THEN <<"Date is required">>
                ELSE <<>>))

\* validateBudget(budget)
validateBudget(budget) ==
    IF CategoryTrimThrows(budget.category) THEN Threw
    ELSE Returned(
            AmountErrors(budget.amount, "Invalid budget amount",
                         "Budget must be positive")
            \o CategoryErrors(budget.category))

\* ---------------------------------------------------------------- JSON
\* Field values beside FNum, FStr and FUndef: null and the number NaN.
FNull == [t |-> "null", v |-> 0, s |-> <<>>]
FNaN == [t |-> "nan", v |-> 0, s |-> <<>>]

DigitChars == <<"0", "1", "2", "3", "4", "5", "6", "7", "8", "9">>

\* The decimal text of an integer.
RECURSIVE NaturalText(_)
NaturalText(n) ==
    IF n < 10 THEN <<DigitChars[n + 1]>>
    ELSE NaturalText(n \div 10) \o <<DigitChars[(n % 10) + 1]>>
NumberText(n) == IF n < 0 THEN <<"-">> \o NaturalText(0 - n) ELSE NaturalText(n)

\* A string between quotes, with quotes and backslashes escaped.
RECURSIVE Escaped(_)
Escaped(chars) ==
    IF chars = <<>> THEN <<>>
    ELSE (IF Head(chars) \in {"\"", "\\"} THEN <<"\\", Head(chars)>>
          ELSE <<Head(chars)>>) \o Escaped(Tail(chars))
Quoted(chars) == <<"\"">> \o Escaped(chars) \o <<"\"">>

RECURSIVE Unescaped(_)
Unescaped(chars) ==
    IF chars = <<>> THEN <<>>
    ELSE IF Head(chars) = "\\" /\ Len(chars) > 1
    THEN <<chars[2]>> \o Unescaped(SubSeq(chars, 3, Len(chars)))
    ELSE <<Head(chars)>> \o Unescaped(Tail(chars))

NullText == <<"n", "u", "l", "l">>

\* The text JSON.stringify writes for a member's value, every number
\* written between quotes.
ValueTextQuotingNumbers(value) ==
    CASE value.t = "num" -> Quoted(NumberText(value.v))
      [] value.t = "str" -> Quoted(value.s)
      [] OTHER -> NullText

\* The text JSON.stringify writes for a member's value: NaN is written as
\* null.
ValueText(value) ==
    CASE value.t = "num" -> NumberText(value.v)
      [] value.t = "str" -> Quoted(value.s)
      [] OTHER -> NullText

\* The value JSON.parse reads from such a text.
ParsedValue(text) ==
    IF text = NullText THEN FNull
    ELSE IF Head(text) = "\"" THEN FStr(Unescaped(SubSeq(text, 2, Len(text) - 1)))
    ELSE FNum(parseFloat(text).v)

RecordKeys == <<"amount", "category">>

\* exportToJSON writing numbers between quotes.
exportToJSONQuotingNumbers(expenses) ==
    [i \in 1..Len(expenses) |->
        LET Defined(key) == expenses[i][key].t # "undef"
            keys == SelectSeq(RecordKeys, Defined)
        IN  [j \in 1..Len(keys) |->
                [key |-> keys[j],
                 text |-> ValueTextQuotingNumbers(expenses[i][keys[j]])]]]

\* exportToJSON(expenses) = JSON.stringify(expenses, null, 2): the text as
\* its array of objects, each the sequence of its members (key and the text
\* of the value); a member whose value is undefined is left out.
exportToJSON(expenses) ==
    [i \in 1..Len(expenses) |->
        LET Defined(key) == expenses[i][key].t # "undef"
            keys == SelectSeq(RecordKeys, Defined)
        IN  [j \in 1..Len(keys) |->
                [key |-> keys[j], text |-> ValueText(expenses[i][keys[j]])]]]

\* JSON.parse of such a text.
JSONparse(text) ==
    [i \in 1..Len(text) |->
        [key \in {text[i][j].key : j \in 1..Len(text[i])} |->
            LET j == CHOOSE j \in 1..Len(text[i]) : text[i][j].key = key
            IN  ParsedValue(text[i][j].text)]]

\* --------------------------------------------------- library call states
\* The results so far, with the result of fn added.
WithResult(results, fn, value) ==
    [k \in DOMAIN results \cup {fn} |-> IF k = fn THEN value ELSE results[k]]

Done(fn) == fn \in DOMAIN ret

StoreIdle ==
    /\ localStorage = [transactions |-> Absent, budgets |-> Absent]
    /\ transactions = <<>>
    /\ budgets = <<>>
    /\ now = 0
    /\ utcOffset = 0
    /\ dashboardView = updateDashboard(<<>>)
    /\ listView = renderTransactions(<<>>)
    /\ budgetView = renderBudgets(<<>>, <<>>)
    /\ reportsView = renderReports(<<>>)

\* Expense records handed to the aggregation functions.
AmountFields == {FNum(10), FStr(<<"7">>), FStr(<<"x">>), FUndef}
CategoryFields == {CatStr("food"), CatStr("bills"), CatStr(""), CatUndef}
ExpenseRecords == [amount : AmountFields, category : CategoryFields]
ExpenseLists == UNION {[1..n -> ExpenseRecords] : n \in 0..MaxLen}

InitExpenses ==
    /\ StoreIdle
    /\ call \in {[fn |-> "expenses", expenses |-> l] : l \in ExpenseLists}
    /\ ret = NoResults

CallCalculateTotalExpenses ==
    /\ ~Done("calculateTotalExpenses")
    /\ ret' = WithResult(ret, "calculateTotalExpenses",
                         calculateTotalExpenses(call.expenses))
    /\ UNCHANGED <<call, storeVars>>

CallGroupExpensesByCategory ==
    /\ ~Done("groupExpensesByCategory")
    /\ ret' = WithResult(ret, "groupExpensesByCategory",
                         groupExpensesByCategory(call.expenses))
    /\ UNCHANGED <<call, storeVars>>

NextExpenses == CallCalculateTotalExpenses \/ CallGroupExpensesByCategory

SpecExpenses == InitExpenses /\ [][NextExpenses]_vars

InitBudget ==
    /\ StoreIdle
    /\ call \in {[fn |-> "budget", spent |-> x, budget |-> b] :
                    x \in (0 - MaxSpent)..MaxSpent,
                    b \in (0 - MaxBudget)..MaxBudget}
    /\ ret = NoResults

CallCalculateBudgetUtilization ==
    /\ ~Done("calculateBudgetUtilization")
    /\ ret' = WithResult(ret, "calculateBudgetUtilization",
                         calculateBudgetUtilization(call.spent, call.budget))
    /\ UNCHANGED <<call, storeVars>>

CallGetBudgetStatus ==
    /\ ~Done("getBudgetStatus")
    /\ ret' = WithResult(ret, "getBudgetStatus",
                         getBudgetStatus(call.spent, call.budget))
    /\ UNCHANGED <<call, storeVars>>

CallIsBudgetExceeded ==
    /\ ~Done("isBudgetExceeded")
    /\ ret' = WithResult(ret, "isBudgetExceeded",
                         isBudgetExceeded(call.spent, call.budget))
    /\ UNCHANGED <<call, storeVars>>

NextBudget ==
    \/ CallCalculateBudgetUtilization
    \/ CallGetBudgetStatus
    \/ CallIsBudgetExceeded

SpecBudget == InitBudget /\ [][NextBudget]_vars

\* Records whose amounts all parse to a number.
MedianAmountFields ==
    {FNum(10), FNum(4), FStr(<<"7">>), FStr(<<"2", "0">>)}
MedianLists ==
    UNION {[1..n -> [amount : MedianAmountFields]] : n \in 0..MaxLen}

InitMedian ==
    /\ StoreIdle
    /\ call \in {[fn |-> "median", expenses |-> l] : l \in MedianLists}
    /\ ret = NoResults

CallCalculateMedianExpense ==
    /\ ~Done("calculateMedianExpense")
    /\ ret' = WithResult(ret, "calculateMedianExpense",
                         calculateMedianExpense(call.expenses))
    /\ UNCHANGED <<call, storeVars>>

NextMedian == CallCalculateMedianExpense

SpecMedian == InitMedian /\ [][NextMedian]_vars

\* Records to sort; id is the position of the record in the input.
SortDates == {Today, [y |-> 2024, m |-> 2, d |-> 10]}
SortFields ==
    [date : SortDates, amount : {FNum(10), FNum(4)},
     category : {CatStr("food"), CatStr("bills")}]
SortLists ==
    UNION {{[i \in 1..n |-> [id |-> i, date |-> f[i].date,
                             amount |-> f[i].amount,
                             category |-> f[i].category]] :
               f \in [1..n -> SortFields]} : n \in 0..MaxLen}

InitSort ==
    /\ StoreIdle
    /\ call \in {[fn |-> "sort", expenses |-> l, sortBy |-> sb, order |-> o] :
                    l \in SortLists,
                    sb \in {"date", "amount", "category", Omitted},
                    o \in {"asc", "desc", Omitted}}
    /\ ret = NoResults

CallSortExpenses ==
    /\ ~Done("sortExpenses")
    /\ ret' = WithResult(ret, "sortExpenses",
                         sortExpenses(call.expenses, call.sortBy, call.order))
    /\ UNCHANGED <<call, storeVars>>

NextSort == CallSortExpenses

SpecSort == InitSort /\ [][NextSort]_vars

\* Records with a category of the enumerated set and a numeric amount.
RecurringFields ==
    [category : {CatStr("food"), CatStr("bills")},
     amount : {FNum(100), FNum(50)}]
RecurringLists ==
    UNION {{[i \in 1..n |-> [id |-> i, category |-> f[i].category,
                             amount |-> f[i].amount]] :
               f \in [1..n -> RecurringFields]} : n \in 0..(MaxLen + 1)}

InitRecurring ==
    /\ StoreIdle
    /\ call \in {[fn |-> "recurring", expenses |-> l, threshold |-> t] :
                    l \in RecurringLists,
                    t \in {NoArg, Arg(1), Arg(2)}}
    /\ ret = NoResults

CallIdentifyRecurringExpenses ==
    /\ ~Done("identifyRecurringExpenses")
    /\ ret' = WithResult(ret, "identifyRecurringExpenses",
                  identifyRecurringExpenses(call.expenses, call.threshold))
    /\ UNCHANGED <<call, storeVars>>

NextRecurring == CallIdentifyRecurringExpenses

SpecRecurring == InitRecurring /\ [][NextRecurring]_vars

\* Records dated 2024-03-01 .. 2024-03-05, ranges with both ends in
\* 2024-03-02 .. 2024-03-04, in a western, the UTC and an eastern timezone.
RangeDates == {[y |-> 2024, m |-> 3, d |-> k] : k \in 1..5}
RangeEnds ==
    {v \in {DateString(d) : d \in RangeDates} \cup
           {LocalDate(d) : d \in RangeDates} :
        v.date.d \in 2..4}
RangeLists ==
    UNION {{[i \in 1..n |-> [id |-> i, date |-> f[i]]] :
               f \in [1..n -> RangeDates]} : n \in 0..MaxLen}

InitRange ==
    /\ StoreIdle
    /\ call \in {[fn |-> "range", expenses |-> l, startDate |-> a,
                  endDate |-> b, tz |-> z] :
                    l \in RangeLists, a \in RangeEnds, b \in RangeEnds,
                    z \in TimezoneOffsets}
    /\ ret = NoResults

CallFilterExpensesByDateRange ==
    /\ ~Done("filterExpensesByDateRange")
    /\ ret' = WithResult(ret, "filterExpensesByDateRange",
                  filterExpensesByDateRange(call.expenses, call.startDate,
                                            call.endDate, call.tz))
    /\ UNCHANGED <<call, storeVars>>

NextRange == CallFilterExpensesByDateRange

SpecRange == InitRange /\ [][NextRange]_vars

\* The lists of SpecExpenses and lists of six categories, one record each.
WideCategories ==
    <<"food", "bills", "transport", "health", "shopping", "other">>
WideLists ==
    {[i \in 1..6 |-> [amount |-> f[i], category |-> CatStr(WideCategories[i])]] :
        f \in [1..6 -> {FNum(10), FStr(<<"7">>)}]}

InitTop ==
    /\ StoreIdle
    /\ call \in {[fn |-> "top", expenses |-> l, limit |-> k] :
                    l \in ExpenseLists \cup WideLists,
                    k \in {NoArg, Arg(0), Arg(1), Arg(2)}}
    /\ ret = NoResults

CallGetTopCategories ==
    /\ ~Done("getTopCategories")
    /\ \E order \in EntryOrders(GroupEntries(call.expenses)) :
          ret' = WithResult(ret, "getTopCategories",
                     getTopCategories(call.expenses, call.limit, order))
    /\ UNCHANGED <<call, storeVars>>

NextTop == CallGetTopCategories

SpecTop == InitTop /\ [][NextTop]_vars

\* Records whose amount is missing, numeric (positive, zero, negative) or a
\* string (numeric, zero, non-numeric, empty), whose category is missing,
\* a string (named, blank, empty) or a number, and whose date is missing,
\* empty or given.
DateText == <<"2", "0", "2", "4", "-", "0", "3", "-", "1", "5">>
ValidationAmounts ==
    {FUndef, FNum(10), FNum(0), FNum(0 - 5), FStr(<<"7">>), FStr(<<"0">>),
     FStr(<<"x">>), FStr(<<>>)}
ValidationCategories ==
    {FUndef, FStr(<<"f", "o", "o", "d">>), FStr(<<" ", " ">>), FStr(<<>>),
     FNum(5), FNum(0)}
ValidationDates == {FUndef, FStr(<<>>), FStr(DateText)}

InitValidate ==
    /\ StoreIdle
    /\ call \in {[fn |-> "validate",
                  record |-> [amount |-> a, category |-> c, date |-> d]] :
                    a \in ValidationAmounts, c \in ValidationCategories,
                    d \in ValidationDates}
    /\ ret = NoResults

CallValidateExpense ==
    /\ ~Done("validateExpense")
    /\ ret' = WithResult(ret, "validateExpense", validateExpense(call.record))
    /\ UNCHANGED <<call, storeVars>>

CallValidateBudget ==
    /\ ~Done("validateBudget")
    /\ ret' = WithResult(ret, "validateBudget", validateBudget(call.record))
    /\ UNCHANGED <<call, storeVars>>

NextValidate == CallValidateExpense \/ CallValidateBudget

SpecValidate == InitValidate /\ [][NextValidate]_vars

\* Records whose fields hold JSON-safe values (numbers, strings, null) and
\* values that are not (NaN, undefined).
JsonAmounts == {FNum(10), FNum(0 - 5), FStr(<<"7">>), FNaN}
JsonCategories == {FStr(<<"a", "\"">>), FStr(NullText), FNull, FUndef}
JsonLists ==
    UNION {[1..n -> [amount : JsonAmounts, category : JsonCategories]] :
              n \in 0..MaxLen}

InitExport ==
    /\ StoreIdle
    /\ call \in {[fn |-> "export", expenses |-> l] : l \in JsonLists}
    /\ ret = NoResults

CallExportToJSON ==
    /\ ~Done("exportToJSON")
    /\ ret' = WithResult(ret, "exportToJSON", exportToJSON(call.expenses))
    /\ UNCHANGED <<call, storeVars>>

NextExport == CallExportToJSON

SpecExport == InitExport /\ [][NextExport]_vars

\* ---------------------------------------------------------------- timers
\* setTimeout(callback, delay) enters a timer whose callback runs once the
\* delay has passed: not earlier, and up to MaxLate later when the event
\* loop is busy.  A timer is its deadline and the arguments its callback
\* closes over; clearTimeout removes it.
Timer(deadline, args) == [deadline |-> deadline, args |-> args]
NoTimer == Timer(0 - 1, "")
clearTimeout(timers, timer) == timers \ {timer}

CallArgs == {"a", "b"}

\* The last invocation of func: when, and with which arguments.
NoInvocation == [at |-> 0 - 1, args |-> ""]

\* Time passes, as long as no timer is overdue by MaxLate.
AdvanceClock ==
    /\ call.clock < MaxTime
    /\ \A timer \in call.timers : call.clock < timer.deadline + MaxLate
    /\ call' = [call EXCEPT !.clock = @ + 1]
    /\ UNCHANGED <<ret, storeVars>>

\* ------------------------------------------------------------- debounce
\* d = debounce(func, wait): `timeout` is the closure's variable, lastCall,
\* lastArgs, repeated and invokedSince record the calls of d and the
\* invocations of func since the last one.
InitDebounce ==
    /\ StoreIdle
    /\ call \in {[fn |-> "debounce", wait |-> w, clock |-> 0, timers |-> {},
                  timeout |-> NoTimer, lastCall |-> 0 - 1, lastArgs |-> "",
                  repeated |-> FALSE, invokedSince |-> 0] :
                    w \in 1..MaxWait}
    /\ ret = [func |-> NoInvocation]

\* A call of d that sets its timer without clearing the one before.
executedFunctionNoClear(args) ==
    /\ call.clock + call.wait <= MaxTime
    /\ LET timer == Timer(call.clock + call.wait, args)
       IN  call' = [call EXCEPT
                       !.timers = @ \cup {timer},
                       !.timeout = timer,
                       !.lastCall = call.clock,
                       !.lastArgs = args,
                       !.repeated = call.lastCall >= 0 /\ call.invokedSince = 0,
                       !.invokedSince = 0]
    /\ UNCHANGED <<ret, storeVars>>

\* executedFunction(...args): clearTimeout(timeout);
\* timeout = setTimeout(later, wait).
executedFunction(args) ==
    /\ call.clock + call.wait <= MaxTime
    /\ LET timer == Timer(call.clock + call.wait, args)
       IN  call' = [call EXCEPT
                       !.timers = clearTimeout(@, call.timeout) \cup {timer},
                       !.timeout = timer,
                       !.lastCall = call.clock,
                       !.lastArgs = args,
                       !.repeated = call.lastCall >= 0 /\ call.invokedSince = 0,
                       !.invokedSince = 0]
    /\ UNCHANGED <<ret, storeVars>>

\* later(): clearTimeout(timeout); func(...args), run as the callback of
\* `timer`.
later(timer) ==
    /\ call.clock >= timer.deadline
    /\ call' = [call EXCEPT
                   !.timers = clearTimeout(@ \ {timer}, call.timeout),
                   !.invokedSince = @ + 1]
    /\ ret' = [ret EXCEPT !.func = [at |-> call.clock, args |-> timer.args]]
    /\ UNCHANGED storeVars

NextDebounce ==
    \/ \E args \in CallArgs : executedFunction(args)
    \/ \E timer \in call.timers : later(timer)
    \/ AdvanceClock

SpecDebounce == InitDebounce /\ [][NextDebounce]_vars

\* The event loop runs a callback that is due, and time goes on.
FairSpecDebounce ==
    /\ SpecDebounce
    /\ WF_vars(\E timer \in call.timers : later(timer))
    /\ WF_vars(AdvanceClock)

\* ------------------------------------------------------------- throttle
\* t = throttle(func, limit): inThrottle is the closure's variable (it
\* starts undefined, which `!inThrottle` reads as false); lastInvoke and
\* dropped record the last call that ran func and the last that did not.
InitThrottle ==
    /\ StoreIdle
    /\ call \in {[fn |-> "throttle", limit |-> l, clock |-> 0, timers |-> {},
                  inThrottle |-> FALSE, lastInvoke |-> 0 - 1,
                  dropped |-> NoInvocation] :
                    l \in 1..MaxWait}
    /\ ret = [func |-> NoInvocation]

\* A call of t that runs func and never raises the flag.
throttledNeverThrottles(args) ==
    IF ~call.inThrottle
    THEN /\ call.clock + call.limit <= MaxTime
         /\ ret' = [ret EXCEPT !.func = [at |-> call.clock, args |-> args]]
         /\ call' = [call EXCEPT
                        !.timers = @ \cup {Timer(call.clock + call.limit, "")},
                        !.lastInvoke = call.clock]
         /\ UNCHANGED storeVars
    ELSE /\ call' = [call EXCEPT
                        !.dropped = [at |-> call.clock, args |-> args]]
         /\ UNCHANGED <<ret, storeVars>>

\* function(...args): if (!inThrottle) { func.apply(this, args);
\* inThrottle = true; setTimeout(() => inThrottle = false, limit); }
throttled(args) ==
    IF ~call.inThrottle
    THEN /\ call.clock + call.limit <= MaxTime
         /\ ret' = [ret EXCEPT !.func = [at |-> call.clock, args |-> args]]
         /\ call' = [call EXCEPT
                        !.inThrottle = TRUE,
                        !.timers = @ \cup {Timer(call.clock + call.limit, "")},
                        !.lastInvoke = call.clock]
         /\ UNCHANGED storeVars
    ELSE /\ call' = [call EXCEPT
                        !.dropped = [at |-> call.clock, args |-> args]]
         /\ UNCHANGED <<ret, storeVars>>

\* () => inThrottle = false, run as the callback of `timer`.
resetThrottle(timer) ==
    /\ call.clock >= timer.deadline
    /\ call' = [call EXCEPT !.inThrottle = FALSE, !.timers = @ \ {timer}]
    /\ UNCHANGED <<ret, storeVars>>

NextThrottle ==
    \/ \E args \in CallArgs : throttled(args)
    \/ \E timer \in call.timers : resetThrottle(timer)
    \/ AdvanceClock

SpecThrottle == InitThrottle /\ [][NextThrottle]_vars

\* The event loop runs a callback that is due, and time goes on.
FairSpecThrottle ==
    /\ SpecThrottle
    /\ WF_vars(\E timer \in call.timers : resetThrottle(timer))
    /\ WF_vars(AdvanceClock)

\* ------------------------------------------------------ store properties
\* list with its k-th element removed.
RemoveAt(list, k) == SubSeq(list, 1, k - 1) \o SubSeq(list, k + 1, Len(list))

\* C1: what a reload would read back from the 'transactions' and 'budgets'
\* keys equals the in-memory transaction list and budget mapping.
C1_PersistedEqualsMemory ==
    /\ LoadTransactions(localStorage) = transactions
    /\ LoadBudgets(localStorage) = budgets

\* C2: no two transactions of the in-memory list have the same id.
C2_IdsUnique ==
    \A i, j \in 1..Len(transactions) :
        i # j => transactions[i].id # transactions[j].id

\* C3: a confirmed deleteTransaction(id) on a list containing id removes
\* exactly one transaction, keeps the others in order and leaves the budgets
\* alone; a declined one changes neither the lists nor the persisted values.
C3_DeleteRemovesExactlyOne ==
    [][\A id \in RenderedIds :
          /\ DeleteTransaction(id, TRUE) =>
                /\ Len(transactions') = Len(transactions) - 1
                /\ \E k \in 1..Len(transactions) :
                      /\ transactions[k].id = id
                      /\ transactions' = RemoveAt(transactions, k)
                /\ budgets' = budgets
          /\ DeleteTransaction(id, FALSE) =>
                UNCHANGED <<transactions, budgets, localStorage>>]_vars

\* C4: setBudget(category, amount) sets that category's budget to the parsed
\* amount, leaves every other category's budget and the transactions
\* unchanged, and no step ever removes a category from the budgets.
C4_SetBudgetOverwritesOnly ==
    [][/\ \A category \in Categories, amount \in BudgetAmountInputs :
             SetBudget(category, amount) =>
                /\ category \in DOMAIN budgets'
                /\ budgets'[category] = parseFloat(amount)
                /\ \A other \in DOMAIN budgets \ {category} :
                      other \in DOMAIN budgets' /\ budgets'[other] = budgets[other]
                /\ DOMAIN budgets' = DOMAIN budgets \cup {category}
                /\ transactions' = transactions
       /\ DOMAIN budgets \subseteq DOMAIN budgets']_vars

\* C4 witness: both categories carry a budget, the two values differ, and
\* the budgets have been written to the store.
C4_Witness ==
    /\ localStorage.budgets.present
    /\ DOMAIN budgets = Categories
    /\ budgets["food"] = Num(100)
    /\ budgets["bills"] = NaN

\* C5 (as stated): after every mutation each of the four views equals what
\* its render function computes from the current transactions and budgets.
C5_AllViewsFresh ==
    /\ dashboardView = updateDashboard(transactions)
    /\ listView = renderTransactions(transactions)
    /\ budgetView = renderBudgets(transactions, budgets)
    /\ reportsView = renderReports(transactions)

\* C5 (amended): the dashboard and the transaction list always equal what
\* is computed from the current transactions, and the budget overview always
\* shows the current budget of exactly the budgeted categories; setBudget and
\* showSection('budget') recompute the budget overview in full, and
\* showSection('reports') recomputes the reports.
C5_HandlerViewsFresh ==
    /\ [](/\ dashboardView = updateDashboard(transactions)
          /\ listView = renderTransactions(transactions)
          /\ DOMAIN budgetView = DOMAIN budgets
          /\ \A c \in DOMAIN budgets : budgetView[c].budget = budgets[c])
    /\ [][/\ (\E category \in Categories, amount \in BudgetAmountInputs :
                 SetBudget(category, amount))
             => budgetView' = renderBudgets(transactions', budgets')
          /\ ShowSection("budget")
             => budgetView' = renderBudgets(transactions', budgets')
          /\ ShowSection("reports")
             => reportsView' = renderReports(transactions')]_vars

\* C5 witness: after transactions were added with a budget set, the
\* dashboard and list are current while the budget overview and the reports
\* still hold values computed before the last mutation.
C5_Witness ==
    /\ transactions # <<>>
    /\ DOMAIN budgets # {}
    /\ dashboardView = updateDashboard(transactions)
    /\ listView = renderTransactions(transactions)
    /\ budgetView # renderBudgets(transactions, budgets)
    /\ reportsView # renderReports(transactions)

\* ---------------------------------------------------- library properties
RECURSIVE SumGroupTotals(_, _)
SumGroupTotals(groups, keys) ==
    IF keys = {} THEN Num(0)
    ELSE LET k == CHOOSE x \in keys : TRUE
         IN  JsAdd(groups[k].total, SumGroupTotals(groups, keys \ {k}))

RECURSIVE SumGroupCounts(_, _)
SumGroupCounts(groups, keys) ==
    IF keys = {} THEN 0
    ELSE LET k == CHOOSE x \in keys : TRUE
         IN  groups[k].count + SumGroupCounts(groups, keys \ {k})

HasNoCategory(expense) ==
    expense.category.t = "undef" \/ expense.category.s = ""

RECURSIVE SumOfParseable(_)
SumOfParseable(expenses) ==
    IF expenses = <<>> THEN 0
    ELSE LET a == ParsedAmount(Head(expenses).amount)
         IN  (IF IsNum(a) THEN a.v ELSE 0) + SumOfParseable(Tail(expenses))

\* C7: calculateTotalExpenses(list) is a number, the sum of the amounts
\* with a missing or unparseable amount contributing 0.
C7_TotalCountsUnparseableAsZero ==
    Done("calculateTotalExpenses") =>
        ret["calculateTotalExpenses"] = Num(SumOfParseable(call.expenses))

\* C8: calculateBudgetUtilization(spent, budget) is 0 when budget is 0,
\* otherwise spent/budget*100 when that is at most 100 and 100 when it is
\* more; it never exceeds 100.
C8_UtilizationCapped ==
    Done("calculateBudgetUtilization") =>
        LET u == ret["calculateBudgetUtilization"]
            x == call.spent
            b == call.budget
            below == (b > 0 /\ x <= b) \/ (b < 0 /\ x >= b)
        IN  /\ u.d > 0
            /\ u.n <= 100 * u.d
            /\ b = 0 => u.n = 0
            /\ b # 0 /\ below => u.n * b = x * 100 * u.d
            /\ b # 0 /\ ~below => u.n = 100 * u.d

\* C8 witness: the spend is above a positive budget and the result is 100.
C8_Witness ==
    /\ Done("calculateBudgetUtilization")
    /\ call.budget > 0 /\ call.spent > call.budget
    /\ ret["calculateBudgetUtilization"] = Rat(100, 1)

Statuses == {"healthy", "caution", "warning", "exceeded"}

\* C9: for spent >= 0 and budget > 0 the status is 'exceeded' from 100% of
\* the budget, 'warning' from 90% and below 100%, 'caution' from 75% and
\* below 90%, 'healthy' below 75%; each of the four statuses is returned for
\* some such input.
C9_StatusThresholds ==
    /\ Done("getBudgetStatus") /\ call.spent >= 0 /\ call.budget > 0 =>
          LET status == ret["getBudgetStatus"]
              x == call.spent
              b == call.budget
          IN  /\ status = "exceeded" <=> x >= b
              /\ status = "warning" <=> 10 * x >= 9 * b /\ x < b
              /\ status = "caution" <=> 4 * x >= 3 * b /\ 10 * x < 9 * b
              /\ status = "healthy" <=> 4 * x < 3 * b
    /\ \A status \in Statuses :
          \E x \in 0..MaxSpent, b \in 1..MaxBudget :
              getBudgetStatus(x, b) = status

\* C9 witness: a spend of exactly 75% of the budget is rated 'caution'.
C9_Witness ==
    /\ Done("getBudgetStatus")
    /\ call.budget > 0 /\ 4 * call.spent = 3 * call.budget
    /\ ret["getBudgetStatus"] = "caution"

Severity(status) ==
    CASE status = "healthy" -> 0 [] status = "caution" -> 1
      [] status = "warning" -> 2 [] status = "exceeded" -> 3

\* The status of every smaller spend is at most as severe as the status
\* returned for the call's spend.
NoSmallerSpendMoreSevere ==
    \A x1 \in (0 - MaxSpent)..MaxSpent :
        x1 <= call.spent =>
            Severity(getBudgetStatus(x1, call.budget))
                <= Severity(ret["getBudgetStatus"])

\* C10 (as stated): for every budget b and spends x1 <= x2, the status of
\* (x2, b) is at least as severe as the status of (x1, b).
C10_StatusMonotoneAnyBudget ==
    Done("getBudgetStatus") => NoSmallerSpendMoreSevere

\* C10 (amended): for every budget b >= 0 and spends x1 <= x2, the status
\* of (x2, b) is at least as severe as the status of (x1, b).
C10_StatusMonotoneNonNegativeBudget ==
    Done("getBudgetStatus") /\ call.budget >= 0 => NoSmallerSpendMoreSevere

\* C10 witness: a positive budget whose spend is rated 'exceeded' while a
\* smaller spend is rated 'healthy' and another 'warning'.
C10_Witness ==
    /\ Done("getBudgetStatus")
    /\ call.budget > 0
    /\ ret["getBudgetStatus"] = "exceeded"
    /\ \E x1, x2 \in 0..call.spent :
          /\ getBudgetStatus(x1, call.budget) = "healthy"
          /\ getBudgetStatus(x2, call.budget) = "warning"

\* The k-th smallest of a sequence of integers.
OrderStatistic(values, k) ==
    CHOOSE v \in {values[i] : i \in 1..Len(values)} :
        /\ Cardinality({i \in 1..Len(values) : values[i] < v}) < k
        /\ k <= Cardinality({i \in 1..Len(values) : values[i] <= v})

\* list with its records rearranged by the permutation p of its indices.
Rearranged(list, p) == [i \in 1..Len(list) |-> list[p[i]]]

RatEq(q, r) == q.n * r.d = r.n * q.d

\* C11: calculateMedianExpense is 0 for the empty list, the middle one of
\* the ascending amounts for an odd length, the average of the two middle
\* ones for an even length, and the same for every order of the records.
C11_MedianOfSortedAmounts ==
    Done("calculateMedianExpense") =>
        LET median == ret["calculateMedianExpense"]
            n == Len(call.expenses)
            values == MedianAmounts(call.expenses)
        IN  /\ n = 0 => median.n = 0
            /\ n % 2 = 1 =>
                  median.n = OrderStatistic(values, (n + 1) \div 2) * median.d
            /\ n > 0 /\ n % 2 = 0 =>
                  2 * median.n
                      = (OrderStatistic(values, n \div 2)
                         + OrderStatistic(values, n \div 2 + 1)) * median.d
            /\ \A p \in Permutations(1..n) :
                  RatEq(calculateMedianExpense(Rearranged(call.expenses, p)),
                        median)

\* C11 witness: an even-length list given in descending order whose median
\* is the average 17/2 of the two different middle amounts 7 and 10.
C11_Witness ==
    /\ Done("calculateMedianExpense")
    /\ Len(call.expenses) = 2
    /\ call.expenses[1].amount = FNum(10)
    /\ call.expenses[2].amount = FStr(<<"7">>)
    /\ ret["calculateMedianExpense"] = Rat(17, 2)

\* C12: sortExpenses returns a permutation of the list, ordered by the
\* chosen key in the chosen direction (date descending when the arguments
\* are left out), in which records with equal keys keep their input order,
\* for 'asc' and for 'desc'.
C12_SortIsStablePermutation ==
    Done("sortExpenses") =>
        LET sorted == ret["sortExpenses"]
            n == Len(call.expenses)
            sortBy == IF call.sortBy = Omitted THEN "date" ELSE call.sortBy
            descending == call.order \in {"desc", Omitted}
            Key(e) == SortKey(e, sortBy)
        IN  /\ Len(sorted) = n
            /\ \A i \in 1..n : \E j \in 1..n : sorted[j] = call.expenses[i]
            /\ \A j \in 1..(n - 1) :
                  IF descending THEN Key(sorted[j]) >= Key(sorted[j + 1])
                  ELSE Key(sorted[j]) <= Key(sorted[j + 1])
            /\ \A j, k \in 1..n :
                  j < k /\ Key(sorted[j]) = Key(sorted[k])
                      => sorted[j].id < sorted[k].id

\* C12 witness: a descending sort by amount of three records, the first and
\* last of which have the same, smaller amount: they follow the larger one
\* in their input order.
C12_Witness ==
    /\ Done("sortExpenses")
    /\ call.sortBy = "amount" /\ call.order = "desc"
    /\ Len(call.expenses) = 3
    /\ call.expenses[1].amount = FNum(4)
    /\ call.expenses[2].amount = FNum(10)
    /\ call.expenses[3].amount = FNum(4)
    /\ ret["sortExpenses"]
          = <<call.expenses[2], call.expenses[1], call.expenses[3]>>

\* C13: identifyRecurringExpenses reports, for each pair (category, amount)
\* occurring at least threshold times (3 when left out), one entry whose
\* frequency is the number of records with that pair and whose expenses are
\* those records, and reports nothing else.
C13_RecurringGroupsByCategoryAndAmount ==
    Done("identifyRecurringExpenses") =>
        LET result == ret["identifyRecurringExpenses"]
            threshold == IF call.threshold.given THEN call.threshold.v ELSE 3
            Members(c, a) ==
                LET Same(e) == e.category = c /\ e.amount = a
                IN  SelectSeq(call.expenses, Same)
            Entries(c, a) ==
                {i \in 1..Len(result) :
                    result[i].category = c /\ result[i].amount = a}
        IN  /\ \A k \in 1..Len(call.expenses) :
                  LET c == call.expenses[k].category
                      a == call.expenses[k].amount
                  IN  IF Len(Members(c, a)) >= threshold
                      THEN /\ Cardinality(Entries(c, a)) = 1
                           /\ \A i \in Entries(c, a) :
                                 /\ result[i].frequency = Len(Members(c, a))
                                 /\ result[i].expenses = Members(c, a)
                      ELSE Entries(c, a) = {}
            /\ \A i \in 1..Len(result) :
                  /\ result[i].frequency >= threshold
                  /\ \E k \in 1..Len(call.expenses) :
                        /\ call.expenses[k].category = result[i].category
                        /\ call.expenses[k].amount = result[i].amount

\* C13 witness: three records of (bills, 100) and one unrelated record,
\* with the threshold left out, give one entry of frequency 3.
C13_Witness ==
    /\ Done("identifyRecurringExpenses")
    /\ ~call.threshold.given
    /\ Len(call.expenses) = 4
    /\ Len(ret["identifyRecurringExpenses"]) = 1
    /\ ret["identifyRecurringExpenses"][1].category = CatStr("bills")
    /\ ret["identifyRecurringExpenses"][1].amount = FNum(100)
    /\ ret["identifyRecurringExpenses"][1].frequency = 3

\* C14: filterExpensesByDateRange returns, in input order, exactly the
\* records whose calendar date lies between the calendar dates of start
\* and end, both included.
C14_RangeInclusiveByDay ==
    Done("filterExpensesByDateRange") =>
        LET OnOrBetween(expense) ==
                /\ DayIndex(call.startDate.date) <= DayIndex(expense.date)
                /\ DayIndex(expense.date) <= DayIndex(call.endDate.date)
        IN  ret["filterExpensesByDateRange"] =
                SelectSeq(call.expenses, OnOrBetween)

\* C15: getTopCategories returns min(limit, number of categories) entries
\* (limit 5 when left out), each a category of the list with its total,
\* by non-increasing total, equal totals in order of first occurrence, and
\* no category left out has a larger total than one returned.
C15_TopCategoriesByTotal ==
    Done("getTopCategories") =>
        LET result == ret["getTopCategories"]
            limit == IF call.limit.given THEN call.limit.v ELSE 5
            entries == GroupEntries(call.expenses)
            Position(category) ==
                CHOOSE i \in 1..Len(entries) : entries[i].category = category
            Larger(x, y) == x.t = "num" /\ y.t = "num" /\ x.v > y.v
        IN  /\ Len(result) =
                  IF limit < Len(entries) THEN limit ELSE Len(entries)
            /\ \A i \in 1..Len(result) :
                  \E k \in 1..Len(entries) :
                     /\ entries[k].category = result[i].category
                     /\ entries[k].data.total = result[i].total
            /\ \A i, j \in 1..Len(result) :
                  i < j =>
                     /\ result[i].category # result[j].category
                     /\ ~Larger(result[j].total, result[i].total)
                     /\ result[i].total = result[j].total =>
                           Position(result[i].category)
                               < Position(result[j].category)
            /\ \A k \in 1..Len(entries) :
                  (\A i \in 1..Len(result) :
                       result[i].category # entries[k].category)
                     => \A i \in 1..Len(result) :
                           ~Larger(entries[k].data.total, result[i].total)

\* C16: validateExpense and validateBudget return {isValid, errors} without
\* raising whatever the fields hold, isValid is true exactly when errors is
\* empty, and validateExpense reports no error exactly when the amount
\* parses to a number above 0, the category is not blank and the date is
\* present.
C16_ValidatorsNeverRaise ==
    /\ \A fn \in {"validateExpense", "validateBudget"} :
          Done(fn) =>
             /\ ~ret[fn].threw
             /\ ret[fn].isValid <=> (ret[fn].errors = <<>>)
    /\ Done("validateExpense") =>
          LET record == call.record
              parsed == ParseField(record.amount)
              NonBlank(c) ==
                  c.t = "str" /\ \E i \in 1..Len(c.s) : c.s[i] # " "
          IN  (ret["validateExpense"].errors = <<>>) <=>
                 /\ parsed.t = "num" /\ parsed.v > 0
                 /\ NonBlank(record.category)
                 /\ record.date.t = "str" /\ record.date.s # <<>>

\* C17: every transaction in memory and in the persisted list has an
\* amount above 0, a category and a valid date, and every budget amount is
\* a number that is not negative.
C17_StoredRecordsValid ==
    LET ValidTransaction(t) ==
            /\ IsNum(t.amount) /\ t.amount.v > 0
            /\ t.category # ""
            /\ t.date # NoDate
        persisted == LoadTransactions(localStorage)
    IN  /\ \A i \in 1..Len(transactions) : ValidTransaction(transactions[i])
        /\ \A i \in 1..Len(persisted) : ValidTransaction(persisted[i])
        /\ \A c \in DOMAIN budgets : IsNum(budgets[c]) /\ budgets[c].v >= 0

\* C18: whenever the budget overview is drawn, each budgeted category's
\* bar is 'danger' when this month's spending is at least 90% of the
\* budget, 'warning' from 70% up to 90% and unmarked below, its width is
\* the percentage capped at 100, and the spending is the sum of the
\* expense transactions of the category dated in the current month and year.
BarsMatchMonth ==
    \A c \in DOMAIN budgetView :
        LET Counts(t) == /\ t.type = "expense" /\ t.category = c
                         /\ t.date.m = Today.m /\ t.date.y = Today.y
            spending == SumAmounts(SelectSeq(transactions, Counts)).v
            budget == budgets[c].v
            bar == budgetView[c]
        IN  /\ bar.spent = Num(spending)
            /\ bar.progressClass =
                  IF spending * 100 >= 90 * budget THEN "danger"
                  ELSE IF spending * 100 >= 70 * budget THEN "warning"
                  ELSE ""
            /\ bar.width.t = "num"
            /\ IF spending >= budget
               THEN bar.width.n = 100 * bar.width.d
               ELSE bar.width.n * budget = spending * 100 * bar.width.d
C18_BudgetBarsByMonthSpending ==
    [][budgetView' # budgetView => BarsMatchMonth']_vars

\* C19: for a list whose fields are all JSON-safe (numbers, strings, null),
\* parsing the text exportToJSON returned gives back the list, record by
\* record and field by field in the same order, and the call leaves its
\* argument as it was.
JsonSafeList(list) ==
    \A i \in 1..Len(list) :
        \A key \in DOMAIN list[i] : list[i][key].t \in {"num", "str", "null"}
C19_ExportRoundTrip ==
    /\ [](Done("exportToJSON") /\ JsonSafeList(call.expenses)
             => JSONparse(ret["exportToJSON"]) = call.expenses)
    /\ [][call'.expenses = call.expenses]_vars

\* C19 witness: a two-record list of safe values with a negative number, a
\* numeric string and a string holding a quote has been exported.
C19_Witness ==
    /\ Done("exportToJSON")
    /\ call.expenses =
          <<[amount |-> FNum(0 - 5), category |-> FStr(<<"a", "\"">>)],
            [amount |-> FStr(<<"7">>), category |-> FNull]>>
    /\ ret["exportToJSON"][1][1].text = <<"-", "5">>
    /\ ret["exportToJSON"][1][2].text = <<"\"", "a", "\\", "\"", "\"">>

\* C20: for spent >= 0 and budget > 0, getBudgetStatus returns 'exceeded'
\* exactly when isBudgetExceeded returns true, spent = budget included.
C20_OverrunTestsAgree ==
    (/\ Done("getBudgetStatus") /\ Done("isBudgetExceeded")
     /\ call.spent >= 0 /\ call.budget > 0)
        => (ret["getBudgetStatus"] = "exceeded" <=> ret["isBudgetExceeded"])

\* func runs only when the last call of d is at least wait old, with that
\* call's arguments, and not twice for one call.
InvokedForLastCallOnly ==
    [][\A timer \in call.timers :
          later(timer) =>
             /\ call.clock - call.lastCall >= call.wait
             /\ ret'.func.args = call.lastArgs
             /\ call.invokedSince = 0]_vars

\* C21 as stated: func never runs while a call of d is younger than wait,
\* and when d is called again more than wait after the last call of a
\* burst, func has run exactly once for that burst, with the arguments of
\* its last call.
C21_OnceAfterEveryQuietWait ==
    /\ InvokedForLastCallOnly
    /\ [][\A args \in CallArgs :
             (/\ executedFunction(args)
              /\ call.lastCall >= 0
              /\ call.clock - call.lastCall > call.wait)
                => /\ call.invokedSince = 1
                   /\ ret.func.args = call.lastArgs]_vars

\* C21, amended: func never runs while a call of d is younger than wait;
\* each run carries the arguments of the last call and there is at most
\* one run per burst; every call of d is eventually followed by a run of
\* func.
C21_OnceAfterLastCall ==
    /\ InvokedForLastCallOnly
    /\ [](call.invokedSince <= 1)
    /\ [](call.invokedSince = 1 => ret.func.args = call.lastArgs)
    /\ (call.lastCall >= 0 /\ call.invokedSince = 0)
          ~> (call.invokedSince = 1)

\* C21 witness: a burst of two calls, the last with "b", has been answered
\* by one run of func with "b", wait after the last call or later.
C21_Witness ==
    /\ call.fn = "debounce"
    /\ call.repeated /\ call.lastArgs = "b"
    /\ call.invokedSince = 1
    /\ ret.func.args = "b"
    /\ ret.func.at >= call.lastCall + call.wait

\* A call of t made while the flag is down runs func at once with its own
\* arguments; a call made less than limit after one that ran func is
\* dropped; func runs in no other step, so never later for a dropped call,
\* and two runs are at least limit apart.
ThrottledRunsAndDrops ==
    /\ [][\A args \in CallArgs :
             throttled(args) =>
                /\ ~call.inThrottle =>
                      ret'.func = [at |-> call.clock, args |-> args]
                /\ (call.lastInvoke >= 0
                      /\ call.clock - call.lastInvoke < call.limit) =>
                      (ret' = ret /\ call'.dropped.at = call.clock)]_vars
    /\ [][ret' # ret =>
             /\ \E args \in CallArgs : throttled(args) /\ ret'.func.args = args
             /\ call.lastInvoke >= 0 =>
                   call.clock - call.lastInvoke >= call.limit]_vars

\* C22 as stated: the above, and the flag is down again once limit has
\* passed since the last run of func.
C22_FlagDownAfterLimit ==
    /\ ThrottledRunsAndDrops
    /\ []((call.lastInvoke >= 0 /\ call.clock - call.lastInvoke > call.limit)
             => ~call.inThrottle)

\* C22, amended: the above, the flag is up for at least limit after each
\* run of func, and it always comes down again later.
C22_FlagDownEventually ==
    /\ ThrottledRunsAndDrops
    /\ []((call.lastInvoke >= 0 /\ call.clock - call.lastInvoke < call.limit)
             => call.inThrottle)
    /\ call.inThrottle ~> ~call.inThrottle

\* C22 witness: func has run, a later call was dropped, and the flag has
\* come down limit after the run or later.
C22_Witness ==
    /\ call.fn = "throttle"
    /\ ret.func.at = call.lastInvoke /\ call.lastInvoke >= 0
    /\ call.dropped.at >= call.lastInvoke
    /\ ~call.inThrottle
    /\ call.clock >= call.lastInvoke + call.limit

====
